---- MODULE Spec2Model ----
(***************************************************************************)
(* Ring-system decomposition (RingSystemFinder), frequency-table build     *)
(* (create_ring_dictionary) and frequency lookup (RingSystemLookup,        *)
(* test_ring_system_lookup) of useful_rdkit_utils/ring_systems.py.         *)
(*                                                                         *)
(* A molecule is a record                                                  *)
(*   atoms : function from atom index to [num, iso, label]                 *)
(*   bonds : sequence of [bgn, end, type, protected, stereo]               *)
(* Atom indices are 0-based as in RDKit; bond index = position - 1.        *)
(* The bool property "protected" of a bond is "unset" until SetBoolProp    *)
(* writes "True" or "False"; GetBoolProp on an unset property raises       *)
(* KeyError.                                                               *)
(***************************************************************************)
EXTENDS Integers, Sequences, FiniteSets

\* ------------------------------------------------------------------ bounds
MaxUnits == 3      \* building blocks per input structure
MaxCalls == 2      \* find_ring_systems calls on one graph object
MaxCorpus == 3     \* rows of an input SMILES file
MaxCount == 2      \* largest count stored in a loaded frequency table

\* ------------------------------------------------- the external graph model
None == [isNone |-> TRUE]
IsNone(m) == "isNone" \in DOMAIN m

Range(s) == {s[i] : i \in DOMAIN s}

RECURSIVE SumSeq(_)
SumSeq(s) == IF s = <<>> THEN 0 ELSE Head(s) + SumSeq(Tail(s))

Atom(z) == [num |-> z, iso |-> 0, label |-> ""]
Bond(a, b, t) == [bgn |-> a, end |-> b, type |-> t, protected |-> "unset",
                  stereo |-> "STEREONONE"]

\* Input structures are written as a chain of building blocks joined by
\* link bonds: a text is [units, links] with Len(links) = Len(units) - 1.
\* The blocks are a carbon, an oxygen and a three-membered carbon ring;
\* hydrogens are implicit, as in a graph read from SMILES.
UnitKinds == {"C", "O", "R3"}
LinkKinds == {"none", "SINGLE", "DOUBLE"}

\* atomic numbers of a block's atoms, in index order
UnitAtoms(k) ==
    CASE k = "C"   -> <<6>>
      [] k = "O"   -> <<8>>
      [] k = "R3"  -> <<6, 6, 6>>

\* bonds inside a block, atom indices shifted by off
UnitBonds(k, off) ==
    CASE k \in {"C", "O"} -> <<>>
      [] k = "R3"  -> << Bond(off, off + 1, "SINGLE"), Bond(off + 1, off + 2, "SINGLE"),
                         Bond(off + 2, off, "SINGLE") >>

LeftAttach(k) == 0
RightAttach(k) == IF k = "R3" THEN 2 ELSE 0

RECURSIVE AtomNums(_)
AtomNums(units) ==
    IF units = <<>> THEN <<>> ELSE UnitAtoms(Head(units)) \o AtomNums(Tail(units))

RECURSIVE ChainBonds(_, _, _, _, _)
ChainBonds(units, links, i, off, prev) ==
    IF i > Len(units) THEN <<>>
    ELSE LET k == units[i]
             link == IF i > 1 /\ links[i - 1] # "none"
                     THEN << Bond(prev, off + LeftAttach(k), links[i - 1]) >>
                     ELSE <<>>
         IN  link \o UnitBonds(k, off)
                  \o ChainBonds(units, links, i + 1, off + Len(UnitAtoms(k)),
                                off + RightAttach(k))

Degree(m, a) == Cardinality({i \in DOMAIN m.bonds : a \in {m.bonds[i].bgn, m.bonds[i].end}})

Order(t) == IF t = "DOUBLE" THEN 2 ELSE 1

Valence(m, a) ==
    SumSeq([i \in DOMAIN m.bonds |->
              IF a \in {m.bonds[i].bgn, m.bonds[i].end} THEN Order(m.bonds[i].type) ELSE 0])

MaxValence(z) == IF z = 6 THEN 4 ELSE IF z = 8 THEN 2 ELSE IF z = 1 THEN 1 ELSE 8

\* the graph a text denotes; a double bond between two atoms that both carry
\* a further neighbour is read with a cis/trans designation
BuildMol(text) ==
    LET nums == AtomNums(text.units)
        raw == [atoms |-> [a \in 0 .. Len(nums) - 1 |-> Atom(nums[a + 1])],
                bonds |-> ChainBonds(text.units, text.links, 1, 0, 0)]
    IN  [raw EXCEPT !.bonds =
            [i \in DOMAIN raw.bonds |->
               IF /\ raw.bonds[i].type = "DOUBLE"
                  /\ Degree(raw, raw.bonds[i].bgn) > 1
                  /\ Degree(raw, raw.bonds[i].end) > 1
               THEN [raw.bonds[i] EXCEPT !.stereo = "STEREOE"]
               ELSE raw.bonds[i]]]

\* Chem.MolFromSmiles: None when the text denotes no valid structure
MolFromSmiles(text) ==
    LET m == BuildMol(text)
    IN  IF \A a \in DOMAIN m.atoms : Valence(m, a) <= MaxValence(m.atoms[a].num)
        THEN m ELSE None

\* --------------------------------------------------------- ring perception
\* S and the atoms one bond away from S, the bond at position skip left out
Nbrs(bonds, S, skip) ==
    S \cup {bonds[i].end : i \in {j \in DOMAIN bonds : j # skip /\ bonds[j].bgn \in S}}
      \cup {bonds[i].bgn : i \in {j \in DOMAIN bonds : j # skip /\ bonds[j].end \in S}}

RECURSIVE ReachSkip(_, _, _)
ReachSkip(bonds, S, skip) ==
    LET T == Nbrs(bonds, S, skip) IN IF T = S THEN S ELSE ReachSkip(bonds, T, skip)

\* the atoms connected to an atom of S
Reach(bonds, S) == ReachSkip(bonds, S, 0)

\* bnd.IsInRing(): the bond lies on a cycle
IsInRing(m, i) == m.bonds[i].end \in ReachSkip(m.bonds, {m.bonds[i].bgn}, i)

AtomInRing(m, a) ==
    \E i \in DOMAIN m.bonds : a \in {m.bonds[i].bgn, m.bonds[i].end} /\ IsInRing(m, i)

\* ------------------------------------------------------- RingSystemFinder
\* atoms matched by each side of ring_db_pat "[#6R,#18R]=[OR0,SR0,CR0,NR0]"
RingDbFirst(m, a) == m.atoms[a].num \in {6, 18} /\ AtomInRing(m, a)
RingDbSecond(m, a) == m.atoms[a].num \in {8, 16, 6, 7} /\ ~AtomInRing(m, a)

\* mol.GetSubstructMatches(self.ring_db_pat): the matched atom pairs
GetSubstructMatches(m) ==
    LET dbl == {i \in DOMAIN m.bonds : m.bonds[i].type = "DOUBLE"}
        cand == {<<m.bonds[i].bgn, m.bonds[i].end>> : i \in dbl}
                  \cup {<<m.bonds[i].end, m.bonds[i].bgn>> : i \in dbl}
    IN  {p \in cand : RingDbFirst(m, p[1]) /\ RingDbSecond(m, p[2])}

\* mol.GetBondBetweenAtoms(bgn, end), as a position in m.bonds
GetBondBetweenAtoms(m, a, b) ==
    CHOOSE i \in DOMAIN m.bonds : {m.bonds[i].bgn, m.bonds[i].end} = {a, b}

\* first loop of tag_bonds_to_preserve
ResetProtected(m) ==
    [m EXCEPT !.bonds = [i \in DOMAIN m.bonds |-> [m.bonds[i] EXCEPT !.protected = "False"]]]

\* second loop of tag_bonds_to_preserve
MarkMatches(m) ==
    LET hit == {GetBondBetweenAtoms(m, p[1], p[2]) : p \in GetSubstructMatches(m)}
    IN  [m EXCEPT !.bonds = [i \in DOMAIN m.bonds |->
                               IF i \in hit THEN [m.bonds[i] EXCEPT !.protected = "True"]
                               ELSE m.bonds[i]]]

TagNoReset(m) == MarkMatches(m)

tag_bonds_to_preserve(m) == MarkMatches(ResetProtected(m))

\* GetBoolProp("protected") is evaluated for the bonds that are not in a ring
RaisesKeyError(m) ==
    \E i \in DOMAIN m.bonds : ~IsInRing(m, i) /\ m.bonds[i].protected = "unset"

CutAnyAcyclic(m, i) == ~IsInRing(m, i)

\* the condition of line 38
IsLinkerBond(m, i) ==
    /\ ~IsInRing(m, i)
    /\ m.bonds[i].protected = "False"
    /\ m.bonds[i].type = "SINGLE"

\* frag_bond_list: bond indices (0-based) in bond order
FragBondList(m) ==
    LET pos == SelectSeq([i \in DOMAIN m.bonds |-> i], LAMBDA i : IsLinkerBond(m, i))
    IN  [k \in DOMAIN pos |-> pos[k] - 1]

Max(S) == CHOOSE x \in S : \A y \in S : x >= y

\* Chem.FragmentOnBonds(mol, bonds): every listed bond is removed and
\* replaced by two bonds to new dummy atoms, which take the next free atom
\* indices; the dummy put on the end atom is labelled (isotope) with the
\* index of the begin atom and vice versa.
RECURSIVE AddDummies(_, _, _, _)
AddDummies(m, src, cut, k) ==
    IF k > Len(cut) THEN m
    ELSE LET b == src.bonds[cut[k] + 1]
             n == Max(DOMAIN m.atoms) + 1
             at == [a \in DOMAIN m.atoms \cup {n, n + 1} |->
                      IF a < n THEN m.atoms[a]
                      ELSE IF a = n THEN [num |-> 0, iso |-> b.bgn, label |-> ""]
                      ELSE [num |-> 0, iso |-> b.end, label |-> ""]]
         IN  AddDummies([atoms |-> at,
                         bonds |-> m.bonds \o << Bond(b.end, n, b.type),
                                                 Bond(b.bgn, n + 1, b.type) >>],
                        src, cut, k + 1)

FragmentOnBonds(m, cut) ==
    LET kept == SelectSeq([i \in DOMAIN m.bonds |-> <<i - 1, m.bonds[i]>>],
                          LAMBDA p : p[1] \notin Range(cut))
    IN  AddDummies([atoms |-> m.atoms, bonds |-> [j \in DOMAIN kept |-> kept[j][2]]],
                   m, cut, 1)

\* cleave_linker_bonds: the graph handed on to cleanup_fragments
cleave_linker_bonds(m) ==
    IF Len(FragBondList(m)) # 0 THEN FragmentOnBonds(m, FragBondList(m)) ELSE m

\* the atoms S of m with the bonds among them
SubMol(m, S) ==
    [atoms |-> [a \in S |-> m.atoms[a]],
     bonds |-> SelectSeq(m.bonds, LAMBDA b : b.bgn \in S /\ b.end \in S)]

Min(S) == CHOOSE x \in S : \A y \in S : x <= y

\* Chem.GetMolFrags(mol, asMols=True): connected components, in the order
\* of their lowest atom index
RECURSIVE GetMolFragsFrom(_, _)
GetMolFragsFrom(m, left) ==
    IF left = {} THEN <<>>
    ELSE LET comp == Reach(m.bonds, {Min(left)})
         IN  << SubMol(m, comp) >> \o GetMolFragsFrom(m, left \ comp)

GetMolFrags(m) == GetMolFragsFrom(m, DOMAIN m.atoms)

\* frag.HasSubstructMatch(self.ring_atom_pat)
HasRingAtom(f) == \E a \in DOMAIN f.atoms : AtomInRing(f, a)

KeepIsotope(at, keep_dummy) ==
    IF at.num = 0
    THEN IF keep_dummy THEN [at EXCEPT !.label = "R"] ELSE [at EXCEPT !.num = 1, !.iso = 0]
    ELSE at

\* lines 60-65 for one atom
ResolveDummy(at, keep_dummy) ==
    IF at.num = 0
    THEN IF keep_dummy THEN [at EXCEPT !.label = "R", !.iso = 0]
         ELSE [at EXCEPT !.num = 1, !.iso = 0]
    ELSE at

KeepHs(f) == f

\* Chem.RemoveAllHs(frag)
RemoveAllHs(f) == SubMol(f, {a \in DOMAIN f.atoms : f.atoms[a].num # 1})

fix_bond_stereo(f) ==
    [f EXCEPT !.bonds =
        [i \in DOMAIN f.bonds |->
           IF /\ f.bonds[i].type = "DOUBLE"
              /\ (Degree(f, f.bonds[i].bgn) = 1 \/ Degree(f, f.bonds[i].end) = 1)
           THEN [f.bonds[i] EXCEPT !.stereo = "STEREONONE"]
           ELSE f.bonds[i]]]

\* body of the loop of cleanup_fragments for a retained fragment
NormalizeFrag(f, keep_dummy) ==
    fix_bond_stereo(RemoveAllHs(
        [f EXCEPT !.atoms = [a \in DOMAIN f.atoms |-> ResolveDummy(f.atoms[a], keep_dummy)]]))

KeepEveryFrag(f) == TRUE

DropRingFrags(f) == ~HasRingAtom(f)

\* the test of line 58
IsRetained(f) == HasRingAtom(f)

cleanup_fragments(m, keep_dummy) ==
    LET kept == SelectSeq(GetMolFrags(m), IsRetained)
    IN  [k \in DOMAIN kept |-> NormalizeFrag(kept[k], keep_dummy)]

\* Chem.MolToSmiles: a text that does not depend on the atom numbering, here
\* the bag of the atoms' environments
AtomEnv(m, a) ==
    LET inc == {i \in DOMAIN m.bonds : a \in {m.bonds[i].bgn, m.bonds[i].end}}
        other(i) == IF m.bonds[i].bgn = a THEN m.bonds[i].end ELSE m.bonds[i].bgn
        env(i) == <<m.bonds[i].type, m.bonds[i].stereo, IsInRing(m, i), m.atoms[other(i)].num>>
    IN  [num |-> m.atoms[a].num, iso |-> m.atoms[a].iso,
         nbrs |-> [e \in {env(i) : i \in inc} |-> Cardinality({i \in inc : env(i) = e})]]

MolToSmiles(m) ==
    [e \in {AtomEnv(m, a) : a \in DOMAIN m.atoms} |->
        Cardinality({a \in DOMAIN m.atoms : AtomEnv(m, a) = e})]

\* find_ring_systems(mol, keep_dummy, as_mols=False) on a parsed structure
find_ring_systems(m, keep_dummy) ==
    LET out == cleanup_fragments(cleave_linker_bonds(tag_bonds_to_preserve(m)), keep_dummy)
    IN  [k \in DOMAIN out |-> MolToSmiles(out[k])]

\* ------------------------------------------------------------------ state
VARIABLES
    mol,              \* the graph object passed to find_ring_systems
    pc,               \* position inside find_ring_systems
    calls,            \* calls of find_ring_systems on this graph object so far
    frag_bond_list,   \* bond indices handed to FragmentOnBonds (line 42)
    frag_mol,         \* value returned by cleave_linker_bonds
    keep_dummy,       \* argument of the current call
    output_list,      \* ring systems built by cleanup_fragments
    result,           \* value returned by find_ring_systems
    parent,           \* <<R>> when mol is a ring system R of an earlier result
    corpus,           \* df.SMILES of create_ring_dictionary / test_ring_system_lookup
    row,              \* rows consumed by the loop
    ring_system_smiles_list,
    df_out,           \* the table written by create_ring_dictionary, <<>> before
    dpc,              \* position inside create_ring_dictionary
    ring_dict,        \* RingSystemLookup.ring_dict
    freq_list,        \* last value of process_smiles
    min_freq_list,
    lpc               \* position inside test_ring_system_lookup

finderVars == <<mol, pc, calls, frag_bond_list, frag_mol, keep_dummy, output_list,
                result, parent>>
dictVars == <<corpus, row, ring_system_smiles_list, df_out, dpc>>
lookupVars == <<ring_dict, freq_list, min_freq_list, lpc>>
vars == <<finderVars, dictVars, lookupVars>>

\* every text of at most MaxUnits building blocks
Texts ==
    UNION {{[units |-> u, links |-> l] :
               u \in [1 .. n -> UnitKinds], l \in [1 .. n - 1 -> LinkKinds]} :
           n \in 1 .. MaxUnits}

\* a graph object whose bonds all carry the same value of "protected"
WithFlags(m, v) ==
    [m EXCEPT !.bonds = [i \in DOMAIN m.bonds |-> [m.bonds[i] EXCEPT !.protected = v]]]

FinderIdle ==
    /\ mol = None /\ pc = "idle" /\ calls = 0 /\ frag_bond_list = <<>>
    /\ frag_mol = None /\ keep_dummy = FALSE /\ output_list = <<>>
    /\ result = <<>> /\ parent = <<>>

DictIdle ==
    /\ corpus = <<>> /\ row = 0 /\ ring_system_smiles_list = <<>>
    /\ df_out = <<>> /\ dpc = "idle"

LookupIdle ==
    /\ ring_dict = <<>> /\ freq_list = <<>> /\ min_freq_list = <<>> /\ lpc = "idle"

\* ----------------------------------------------- find_ring_systems, stepwise
\* A parsed structure enters find_ring_systems; its bonds are fresh (property
\* unset) or carry a value left by an earlier user of the object.
InitFinder ==
    /\ \E t \in Texts, v \in {"unset", "True"} :
          /\ ~IsNone(MolFromSmiles(t))
          /\ mol = WithFlags(MolFromSmiles(t), v)
    /\ pc = "start" /\ calls = 1
    /\ frag_bond_list = <<>> /\ frag_mol = None /\ keep_dummy = FALSE
    /\ output_list = <<>> /\ result = <<>> /\ parent = <<>>
    /\ DictIdle /\ LookupIdle

\* line 94
Tag ==
    /\ pc = "start"
    /\ mol' = tag_bonds_to_preserve(mol)
    /\ pc' = "tagged"
    /\ UNCHANGED <<calls, frag_bond_list, frag_mol, keep_dummy, output_list, result,
                   parent, dictVars, lookupVars>>

\* line 95
Cleave ==
    /\ pc = "tagged"
    /\ IF RaisesKeyError(mol)
       THEN pc' = "KeyError" /\ UNCHANGED <<frag_bond_list, frag_mol>>
       ELSE /\ pc' = "cleaved"
            /\ frag_bond_list' = FragBondList(mol)
            /\ frag_mol' = cleave_linker_bonds(mol)
    /\ UNCHANGED <<mol, calls, keep_dummy, output_list, result, parent, dictVars,
                   lookupVars>>

\* line 96
Cleanup ==
    /\ pc = "cleaved"
    /\ \E kd \in BOOLEAN :
          /\ keep_dummy' = kd
          /\ output_list' = cleanup_fragments(frag_mol, kd)
    /\ pc' = "cleaned"
    /\ UNCHANGED <<mol, calls, frag_bond_list, frag_mol, result, parent, dictVars,
                   lookupVars>>

\* lines 97-99
Return ==
    /\ pc = "cleaned"
    /\ \E as_mols \in BOOLEAN :
          result' = IF as_mols THEN output_list
                    ELSE [k \in DOMAIN output_list |-> MolToSmiles(output_list[k])]
    /\ pc' = "returned"
    /\ UNCHANGED <<mol, calls, frag_bond_list, frag_mol, keep_dummy, output_list,
                   parent, dictVars, lookupVars>>

\* the caller passes the same graph object to find_ring_systems once more;
\* the locals of the new call start afresh
CallAgain ==
    /\ pc = "returned"
    /\ calls < MaxCalls
    /\ calls' = calls + 1
    /\ pc' = "start"
    /\ frag_bond_list' = <<>> /\ frag_mol' = None /\ keep_dummy' = FALSE
    /\ output_list' = <<>> /\ result' = <<>>
    /\ UNCHANGED <<mol, parent, dictVars, lookupVars>>

\* the caller passes a returned ring system (dummy atoms discarded) to
\* find_ring_systems
Redecompose ==
    /\ pc = "returned"
    /\ parent = <<>>
    /\ ~keep_dummy
    /\ \E k \in DOMAIN output_list :
          /\ mol' = output_list[k]
          /\ parent' = << output_list[k] >>
    /\ calls' = 1
    /\ pc' = "start"
    /\ frag_bond_list' = <<>> /\ frag_mol' = None /\ keep_dummy' = FALSE
    /\ output_list' = <<>> /\ result' = <<>>
    /\ UNCHANGED <<dictVars, lookupVars>>

NextFinder == Tag \/ Cleave \/ Cleanup \/ Return \/ CallAgain \/ Redecompose

SpecFinder == InitFinder /\ [][NextFinder]_vars

\* ------------------------------------------------- properties of the finder
Ends(b) == {b.bgn, b.end}
AfterCleave == pc \in {"cleaved", "cleaned", "returned"}
AfterCleanup == pc \in {"cleaned", "returned"}
OrigAtoms == DOMAIN mol.atoms
CutBond(k) == mol.bonds[frag_bond_list[k] + 1]
IsConnected(m) == \A a \in DOMAIN m.atoms : Reach(m.bonds, {a}) = DOMAIN m.atoms
Holders(a) == {k \in DOMAIN output_list : a \in DOMAIN output_list[k].atoms}

\* C1: after tag_bonds_to_preserve and cleave_linker_bonds, no bond whose two
\* atoms were returned as a match of the exocyclic-double-bond pattern is in
\* the list of bonds passed to FragmentOnBonds.
C1_MatchedBondNeverCut ==
    AfterCleave =>
        \A k \in DOMAIN frag_bond_list : \A p \in GetSubstructMatches(mol) :
            Ends(CutBond(k)) # {p[1], p[2]}

\* a structure with a matched exocyclic double bond has been cut elsewhere
C1_Witness ==
    /\ AfterCleave
    /\ GetSubstructMatches(mol) # {}
    /\ frag_bond_list # <<>>

\* C3 (as stated): with keep_dummy, a placeholder atom of a retained fragment
\* keeps its atomic number and its isotope through the resolution step.
C3_IsotopeKept ==
    (AfterCleanup /\ keep_dummy) =>
        \A k \in DOMAIN output_list : \A a \in DOMAIN output_list[k].atoms :
            frag_mol.atoms[a].num = 0 =>
                /\ output_list[k].atoms[a].num = 0
                /\ output_list[k].atoms[a].iso = frag_mol.atoms[a].iso

\* C3 (amended): with keep_dummy, a placeholder atom of a retained fragment
\* keeps its atomic number 0, receives the label "R", and its isotope is
\* cleared to 0; every placeholder of the fragment is still in the result.
C3_LabelledAndIsotopeCleared ==
    (AfterCleanup /\ keep_dummy) =>
        /\ \A k \in DOMAIN output_list : \A a \in DOMAIN output_list[k].atoms :
              frag_mol.atoms[a].num = 0 =>
                  /\ output_list[k].atoms[a].num = 0
                  /\ output_list[k].atoms[a].label = "R"
                  /\ output_list[k].atoms[a].iso = 0
        /\ \A a \in DOMAIN frag_mol.atoms :
              (frag_mol.atoms[a].num = 0 /\ HasRingAtom(SubMol(frag_mol, Reach(frag_mol.bonds, {a}))))
                  => Holders(a) # {}

\* a retained fragment holds a placeholder that the cut labelled with a
\* non-zero isotope
C3_Witness ==
    /\ AfterCleanup /\ keep_dummy
    /\ \E k \in DOMAIN output_list : \E a \in DOMAIN output_list[k].atoms :
          frag_mol.atoms[a].num = 0 /\ frag_mol.atoms[a].iso # 0

\* C4: every atom of the original structure is in exactly one connected
\* fragment of the cut graph; it is in exactly one returned ring system when
\* that fragment has a ring atom and in none (its fragment is discarded)
\* when it has not; no atom is in two returned ring systems, none is lost.
C4_Coverage ==
    AfterCleanup =>
        \A a \in OrigAtoms :
            LET own == {k \in DOMAIN GetMolFrags(frag_mol) :
                           a \in DOMAIN GetMolFrags(frag_mol)[k].atoms}
                comp == SubMol(frag_mol, Reach(frag_mol.bonds, {a}))
            IN  /\ a \in DOMAIN frag_mol.atoms
                /\ frag_mol.atoms[a].num = mol.atoms[a].num
                /\ Cardinality(own) = 1
                /\ Cardinality(Holders(a)) <= 1
                /\ (Holders(a) = {}) <=> ~HasRingAtom(comp)
                /\ \A k \in Holders(a) :
                      output_list[k].atoms[a].num = mol.atoms[a].num

\* two ring systems were returned and a ring-free fragment was discarded
C4_Witness ==
    /\ AfterCleanup
    /\ Len(output_list) >= 2
    /\ \E a \in OrigAtoms : Holders(a) = {}

\* the precondition of C8: connected, a ring atom, and no bond that is at
\* once non-ring, unprotected and single
C8_Pre ==
    /\ IsConnected(mol)
    /\ HasRingAtom(mol)
    /\ \A i \in DOMAIN mol.bonds :
          ~(~IsInRing(mol, i) /\ mol.bonds[i].protected = "False"
              /\ mol.bonds[i].type = "SINGLE")

\* C8: under that precondition cleave_linker_bonds returns the input graph
\* unchanged (nothing cut, no placeholder added) and find_ring_systems
\* returns exactly one ring system whose atoms are all atoms of the input.
C8_WholeStructureIsOneRingSystem ==
    /\ (AfterCleave /\ C8_Pre) => (frag_bond_list = <<>> /\ frag_mol = mol)
    /\ (AfterCleanup /\ C8_Pre) =>
          /\ Len(output_list) = 1
          /\ DOMAIN output_list[1].atoms = OrigAtoms
    /\ (pc = "returned" /\ C8_Pre) => Len(result) = 1

\* a ring with an exocyclic double bond went through the whole call uncut
C8_Witness ==
    /\ pc = "returned" /\ C8_Pre /\ parent = <<>>
    /\ \E i \in DOMAIN mol.bonds : ~IsInRing(mol, i)

SameGraph(f, g) ==
    /\ DOMAIN f.atoms = DOMAIN g.atoms
    /\ \A a \in DOMAIN f.atoms : f.atoms[a] = g.atoms[a]
    /\ {<<Ends(b), b.type, b.stereo>> : b \in Range(f.bonds)}
         = {<<Ends(b), b.type, b.stereo>> : b \in Range(g.bonds)}
    /\ Len(f.bonds) = Len(g.bonds)

\* C9: find_ring_systems on a ring system R that an earlier call returned
\* with dummy atoms discarded yields exactly one ring system, R itself: the
\* same atoms and bonds and the same canonical text.
C9_Idempotent ==
    (AfterCleanup /\ parent # <<>>) =>
        /\ Len(output_list) = 1
        /\ SameGraph(output_list[1], parent[1])
        /\ MolToSmiles(output_list[1]) = MolToSmiles(parent[1])
        /\ frag_bond_list = <<>>

\* the second pass ran on a ring system cut out of a larger structure
C9_Witness ==
    /\ AfterCleanup /\ parent # <<>>
    /\ \E i \in DOMAIN parent[1].bonds : ~IsInRing(parent[1], i)
    /\ \E a \in DOMAIN parent[1].atoms : a > 3

\* the cut set as the pattern matches of this call alone determine it
CutSetOfMatches(m) ==
    {i - 1 : i \in {j \in DOMAIN m.bonds :
        /\ ~IsInRing(m, j)
        /\ m.bonds[j].type = "SINGLE"
        /\ \A p \in GetSubstructMatches(m) : Ends(m.bonds[j]) # {p[1], p[2]}}}

\* C10: in every call, also a later one on an already tagged graph, every
\* bond's flag is written before cleave_linker_bonds reads one (no KeyError,
\* no flag unset after tagging), and the cut set is the one the pattern
\* matches of this call determine, whatever the flags were before.
C10_FlagsInitialisedEachCall ==
    /\ pc # "KeyError"
    /\ pc = "tagged" =>
          \A i \in DOMAIN mol.bonds :
              mol.bonds[i].protected =
                  IF \E p \in GetSubstructMatches(mol) : Ends(mol.bonds[i]) = {p[1], p[2]}
                  THEN "True" ELSE "False"
    /\ AfterCleave => Range(frag_bond_list) = CutSetOfMatches(mol)

\* a second call on the same graph object has cut bonds
C10_Witness ==
    /\ calls = 2 /\ pc = "cleaved" /\ parent = <<>>
    /\ frag_bond_list # <<>>
    /\ GetSubstructMatches(mol) # {}

\* ------------------------------------------------- create_ring_dictionary
\* the structure texts the rows of an input file are drawn from:
\* cyclopropane, bicyclopropyl, cyclopropanone, methanol, and C=O=C, which
\* Chem.MolFromSmiles rejects
CorpusTexts ==
    { [units |-> <<"R3">>, links |-> <<>>],
      [units |-> <<"R3", "R3">>, links |-> <<"SINGLE">>],
      [units |-> <<"O", "R3">>, links |-> <<"DOUBLE">>],
      [units |-> <<"C", "O">>, links |-> <<"SINGLE">>],
      [units |-> <<"C", "O", "C">>, links |-> <<"DOUBLE", "DOUBLE">>] }

Corpora == UNION {[1 .. n -> CorpusTexts] : n \in 1 .. MaxCorpus}

ExtendDistinct(list, new) ==
    list \o SelectSeq(new, LAMBDA x : x \notin Range(list))

\* the += of line 122
Extend(list, new) == list \o new

\* pd.Series(list).value_counts() as a mapping ring_system -> count
value_counts(list) ==
    [x \in Range(list) |-> Cardinality({k \in DOMAIN list : list[k] = x})]

\* lines 119-122: one row of the loop
DictRow ==
    /\ dpc = "loop"
    /\ row < Len(corpus)
    /\ LET m == MolFromSmiles(corpus[row + 1])
       IN  IF IsNone(m)
           THEN \* find_ring_systems(None): None.GetBonds() at line 23
                /\ dpc' = "AttributeError"
                /\ UNCHANGED <<row, ring_system_smiles_list>>
           ELSE /\ ring_system_smiles_list' =
                       Extend(ring_system_smiles_list, find_ring_systems(m, FALSE))
                /\ row' = row + 1
                /\ dpc' = dpc
    /\ UNCHANGED <<corpus, df_out, finderVars, lookupVars>>

\* lines 123-127
DictWrite ==
    /\ dpc = "loop"
    /\ row = Len(corpus)
    /\ df_out' = value_counts(ring_system_smiles_list)
    /\ dpc' = "written"
    /\ UNCHANGED <<corpus, row, ring_system_smiles_list, finderVars, lookupVars>>

InitDict ==
    /\ corpus \in Corpora
    /\ row = 0 /\ ring_system_smiles_list = <<>> /\ df_out = <<>> /\ dpc = "loop"
    /\ FinderIdle /\ LookupIdle

NextDict == DictRow \/ DictWrite

SpecDict == InitDict /\ [][NextDict]_vars

\* the whole of create_ring_dictionary on a corpus whose rows all parse
RECURSIVE SmilesListOf(_)
SmilesListOf(c) ==
    IF c = <<>> THEN <<>>
    ELSE Extend(SmilesListOf(SubSeq(c, 1, Len(c) - 1)),
                find_ring_systems(MolFromSmiles(c[Len(c)]), FALSE))

TableOf(c) == value_counts(SmilesListOf(c))

Parses(t) == ~IsNone(MolFromSmiles(t))

\* C2: a row whose text fails to parse is skipped and the build completes:
\* the table holds exactly the counts of the rows that parsed.
C2_ParseFailureSkipped ==
    /\ dpc # "AttributeError"
    /\ dpc = "written" => df_out = TableOf(SelectSeq(corpus, Parses))

\* partial tallies added together
MergeTables(t1, t2) ==
    [x \in DOMAIN t1 \cup DOMAIN t2 |->
        (IF x \in DOMAIN t1 THEN t1[x] ELSE 0) + (IF x \in DOMAIN t2 THEN t2[x] ELSE 0)]

RowOrders(n) == {f \in [1 .. n -> 1 .. n] : \A i, j \in 1 .. n : f[i] = f[j] => i = j}

\* occurrences of x among the strings find_ring_systems returns over the rows
Occurrences(x) ==
    SumSeq([r \in DOMAIN corpus |->
              LET out == find_ring_systems(MolFromSmiles(corpus[r]), FALSE)
              IN  Cardinality({k \in DOMAIN out : out[k] = x})])

\* C7: the table maps every returned string to the exact number of times it
\* was returned over all rows (twice for one row counts twice), has no key
\* with count 0, and is the same for every permutation of the rows and for
\* every split of the rows into two partial tallies that are added.
C7_ExactOrderFreeCounts ==
    dpc = "written" =>
        /\ \A r \in DOMAIN corpus :
              Range(find_ring_systems(MolFromSmiles(corpus[r]), FALSE)) \subseteq DOMAIN df_out
        /\ \A x \in DOMAIN df_out : df_out[x] = Occurrences(x) /\ df_out[x] > 0
        /\ \A f \in RowOrders(Len(corpus)) :
              TableOf([i \in DOMAIN corpus |-> corpus[f[i]]]) = df_out
        /\ \A k \in 0 .. Len(corpus) :
              MergeTables(TableOf(SubSeq(corpus, 1, k)),
                          TableOf(SubSeq(corpus, k + 1, Len(corpus)))) = df_out

\* a table with two keys, one of them returned twice for a single row
C7_Witness ==
    /\ dpc = "written"
    /\ Cardinality(DOMAIN df_out) >= 2
    /\ \E r \in DOMAIN corpus :
          LET out == find_ring_systems(MolFromSmiles(corpus[r]), FALSE)
          IN  Len(out) = 2 /\ out[1] = out[2]
    /\ \E r1, r2 \in DOMAIN corpus : corpus[r1] # corpus[r2]

\* ------------------------------------- RingSystemLookup and its test driver
\* the strings the corpus texts decompose to: the keys a table can hold
KnownRingSystems ==
    UNION {Range(find_ring_systems(MolFromSmiles(t), FALSE)) :
             t \in {u \in CorpusTexts : Parses(u)}}

\* tables a csv file can hold: some ring systems with a count each
Tables == UNION {[K -> 0 .. MaxCount] : K \in SUBSET KnownRingSystems}

\* dict.get(x): <<>> stands for None
DictGet(d, x) == IF x \in DOMAIN d THEN << d[x] >> ELSE <<>>

CountOrOne(d, x) == IF DictGet(d, x) = <<>> THEN 1 ELSE DictGet(d, x)[1]

\* self.ring_dict.get(x) or 0
CountOrZero(d, x) ==
    IF DictGet(d, x) = <<>> \/ DictGet(d, x)[1] = 0 THEN 0 ELSE DictGet(d, x)[1]

\* process_mol
process_mol(m) ==
    IF ~IsNone(m)
    THEN LET ring_system_list == find_ring_systems(m, FALSE)
         IN  [k \in DOMAIN ring_system_list |->
                <<ring_system_list[k], CountOrZero(ring_dict, ring_system_list[k])>>]
    ELSE <<>>

\* process_smiles
process_smiles(smi) == process_mol(MolFromSmiles(smi))

RECURSIVE MinSeq(_)
MinSeq(s) ==
    IF Len(s) = 1 THEN s[1]
    ELSE LET r == MinSeq(Tail(s)) IN IF s[1] <= r THEN s[1] ELSE r

MinFreqTruthy(fl) ==
    IF Len(fl) # 0 /\ MinSeq([k \in DOMAIN fl |-> fl[k][2]]) # 0
    THEN MinSeq([k \in DOMAIN fl |-> fl[k][2]]) ELSE -1

\* lines 180-183
MinFreq(fl) ==
    IF Len(fl) # 0 THEN MinSeq([k \in DOMAIN fl |-> fl[k][2]]) ELSE -1

\* lines 178-184: one row of the loop of test_ring_system_lookup
LookupRow ==
    /\ lpc = "loop"
    /\ row < Len(corpus)
    /\ freq_list' = process_smiles(corpus[row + 1])
    /\ min_freq_list' = Append(min_freq_list, MinFreq(freq_list'))
    /\ row' = row + 1
    /\ UNCHANGED <<corpus, ring_dict, lpc, ring_system_smiles_list, df_out, dpc,
                   finderVars>>

\* lines 185-186
LookupWrite ==
    /\ lpc = "loop"
    /\ row = Len(corpus)
    /\ lpc' = "written"
    /\ UNCHANGED <<corpus, row, ring_dict, freq_list, min_freq_list,
                   ring_system_smiles_list, df_out, dpc, finderVars>>

InitLookup ==
    /\ corpus \in Corpora
    /\ ring_dict \in Tables
    /\ row = 0 /\ freq_list = <<>> /\ min_freq_list = <<>> /\ lpc = "loop"
    /\ ring_system_smiles_list = <<>> /\ df_out = <<>> /\ dpc = "idle"
    /\ FinderIdle

NextLookup == LookupRow \/ LookupWrite

SpecLookup == InitLookup /\ [][NextLookup]_vars

\* the ring systems of the row the loop handled last
LastRingSystems ==
    IF Parses(corpus[row]) THEN find_ring_systems(MolFromSmiles(corpus[row]), FALSE)
    ELSE <<>>

\* C5: process_mol pairs every ring-system string of find_ring_systems with
\* its table count when the string is a key and with 0 when it is not; a
\* missing key raises nothing and the count is always an integer >= 0.
C5_MissingKeyCountsZero ==
    (lpc = "loop" /\ row > 0 /\ Parses(corpus[row])) =>
        /\ Len(freq_list) = Len(LastRingSystems)
        /\ \A k \in DOMAIN freq_list :
              /\ freq_list[k][1] = LastRingSystems[k]
              /\ freq_list[k][2] \in Nat
              /\ freq_list[k][1] \in DOMAIN ring_dict
                    => freq_list[k][2] = ring_dict[freq_list[k][1]]
              /\ freq_list[k][1] \notin DOMAIN ring_dict => freq_list[k][2] = 0

\* the row handled last has a ring system that is missing from a table which
\* holds a positive count for another one
C5_Witness ==
    /\ lpc = "loop" /\ row > 0
    /\ \E k \in DOMAIN freq_list : freq_list[k][1] \notin DOMAIN ring_dict
    /\ \E x \in DOMAIN ring_dict : ring_dict[x] > 0

\* C6: the min-count of a row is -1 exactly when its query result is empty,
\* which is when the text failed to parse or no ring system was found;
\* otherwise it is the minimum of the paired counts, >= 0, and 0 when the
\* only ring system is absent from the table.
C6_SentinelOnlyWhenEmpty ==
    (lpc = "loop" /\ row > 0) =>
        LET res == min_freq_list[row]
            counts == {freq_list[k][2] : k \in DOMAIN freq_list}
        IN  /\ Len(min_freq_list) = row
            /\ (res = -1) <=> (freq_list = <<>>)
            /\ (freq_list = <<>>) <=> (LastRingSystems = <<>>)
            /\ freq_list # <<>> =>
                  /\ res \in counts
                  /\ \A c \in counts : res <= c
                  /\ res >= 0
            /\ (Len(LastRingSystems) = 1 /\ LastRingSystems[1] \notin DOMAIN ring_dict)
                  => res = 0

\* one row gave the sentinel and a later row, whose only ring system is not
\* in the table, gave 0
C6_Witness ==
    /\ lpc = "loop" /\ row > 1
    /\ -1 \in Range(min_freq_list)
    /\ Len(LastRingSystems) = 1 /\ LastRingSystems[1] \notin DOMAIN ring_dict
    /\ min_freq_list[row] = 0

====
